---- MODULE Spec2Model ----
(***************************************************************************)
(* A model of the IDX financial-statement extraction pipeline:             *)
(*   extractor.py      detect_scale, filter_relevant_pages,                *)
(*                     analyze_page_with_llm (retry), merge_financials     *)
(*   utils.py          calculate_ratios_structured                         *)
(*   run_extraction.py main                                                *)
(*   schemas.py        FinancialMetric, BalanceSheet, IncomeStatement,     *)
(*                     ExtractedFinancials                                 *)
(*                                                                         *)
(* Python values are records carrying a "type" field, so that None, an     *)
(* object, a tuple and a raised exception can be told apart.  Texts are    *)
(* strings; slicing is SubSeq and `kw in text` is a substring search.      *)
(***************************************************************************)
EXTENDS Integers, Sequences, FiniteSets, TLC

VARIABLES
    mode,            \* which entry point this behaviour exercises
    extracted_list,  \* merge_financials: the list object passed in (element 0 is mutated in place)
    restated,        \* provenance of each candidate: TRUE iff it was read from a restated (PSAK 111) page
    merge_in,        \* the value of extracted_list when merge_financials was called
    merged,          \* merge_financials: the returned value
    data,            \* calculate_ratios_structured: the record passed in
    ratios,          \* calculate_ratios_structured: the returned mapping, or the exception raised
    text,            \* detect_scale: the page text passed in
    frags,           \* the pieces the page text was put together from
    scale_result,    \* detect_scale: the returned (label, multiplier)
    pdf,             \* extract_text_from_pdf: the file at pdf_path
    max_pages,       \* extract_text_from_pdf: the page cap passed in
    pdf_text,        \* extract_text_from_pdf: the returned list, or the exception raised
    pages_text,      \* filter_relevant_pages: the page texts passed in
    relevant_pages,  \* filter_relevant_pages: the returned map
    pc,              \* main: where the run stands
    indices_to_process, \* main: the selected page indices
    pending,         \* main: the indices the for loop has not reached yet
    current,         \* main: the index i of the page being analysed
    attempts,        \* per page, the attempts of the external call made so far
    calls,           \* per page, how often main called analyze_page_with_llm
    status,          \* per page: "pending", "ok" (a result came back) or "failed"
    extracted_results, \* main: the list handed to merge_financials
    result_pages,    \* the page each element of extracted_results came from
    final_data,      \* main: what merge_financials returned
    output_file,     \* the content of extracted_data.json
    outcome          \* how the run ended

mergeVars == <<extracted_list, restated, merge_in, merged>>
ratioVars == <<data, ratios>>
scaleVars == <<text, frags, scale_result>>
extractVars == <<pdf, max_pages, pdf_text>>
filterVars == <<pages_text, relevant_pages>>
mainVars == <<pc, indices_to_process, pending, current, attempts, calls, status,
              extracted_results, result_pages, final_data, output_file, outcome>>
vars == <<mode, mergeVars, ratioVars, scaleVars, extractVars, filterVars, mainVars>>

(***************************************************************************)
(* Python values                                                           *)
(***************************************************************************)
None == [type |-> "NoneType"]
NotCalled == [type |-> "NotCalled"]
AttributeError == [type |-> "AttributeError"]
ZeroDivisionError == [type |-> "ZeroDivisionError"]

\* schemas.py: FinancialMetric
FinancialMetric(rt, v) == [type |-> "FinancialMetric", raw_text |-> rt, value |-> v]

\* schemas.py: the declared fields of BalanceSheet and IncomeStatement
BalanceSheetFields == {"total_assets", "total_liabilities", "total_equity", "current_assets",
                       "current_liabilities", "cash_equivalents", "inventories"}
IncomeStatementFields == {"revenues", "gross_profit", "net_income", "finance_cost"}

\* schemas.py: BalanceSheet / IncomeStatement, every field defaulting to None
BalanceSheet(f) == [x \in BalanceSheetFields |-> f[x]]
IncomeStatement(f) == [x \in IncomeStatementFields |-> f[x]]

\* schemas.py: ExtractedFinancials (it declares no is_psak_111 field)
ExtractedFinancials(cn, rp, cur, sc, um, bs, is) ==
    [type |-> "ExtractedFinancials", company_name |-> cn, report_period |-> rp,
     currency |-> cur, scale |-> sc, unit_multiplier |-> um,
     balance_sheet |-> bs, income_statement |-> is]

\* a Python tuple
Tuple(items) == [type |-> "tuple", items |-> items]

IsEF(x) == x.type = "ExtractedFinancials"

(***************************************************************************)
(* extractor.py: merge_financials                                          *)
(***************************************************************************)
\* an identity fill that lets every later non-empty string overwrite
FillIdentity_Overwrite(cur, new) == IF new # "" THEN new ELSE cur

\* lines 204-207: `(not cur or cur == "Unknown") and new` picks the new string
FillIdentity(cur, new) == IF (cur = "" \/ cur = "Unknown") /\ new # "" THEN new ELSE cur

\* a fill that lets every later non-null value overwrite
FillField_LastWins(current_val, new_val) ==
    IF new_val # None THEN new_val ELSE current_val

\* lines 211-214 / 218-221: one field of the fill loop
FillField(current_val, new_val) ==
    IF current_val = None /\ new_val # None THEN new_val ELSE current_val

\* a loop body that also takes currency, scale and unit_multiplier from `other`
MergeOther_CopiesUnits(m, other) ==
    IF ~IsEF(m) THEN AttributeError
    ELSE IF ~IsEF(other) THEN AttributeError
    ELSE [m EXCEPT
            !.company_name = FillIdentity(m.company_name, other.company_name),
            !.report_period = FillIdentity(m.report_period, other.report_period),
            !.currency = other.currency,
            !.scale = other.scale,
            !.unit_multiplier = other.unit_multiplier,
            !.balance_sheet = [x \in BalanceSheetFields |->
                                  FillField(m.balance_sheet[x], other.balance_sheet[x])],
            !.income_statement = [x \in IncomeStatementFields |->
                                  FillField(m.income_statement[x], other.income_statement[x])]]

\* lines 203-221: the body of the loop for one `other`
MergeOther(m, other) ==
    IF ~IsEF(m) THEN AttributeError              \* merged.company_name on a non-record
    ELSE IF ~IsEF(other) THEN AttributeError     \* other.company_name / other.balance_sheet
    ELSE [m EXCEPT
            !.company_name = FillIdentity(m.company_name, other.company_name),
            !.report_period = FillIdentity(m.report_period, other.report_period),
            !.balance_sheet = [x \in BalanceSheetFields |->
                                  FillField(m.balance_sheet[x], other.balance_sheet[x])],
            !.income_statement = [x \in IncomeStatementFields |->
                                  FillField(m.income_statement[x], other.income_statement[x])]]

\* lines 202-221: `for other in extracted_list[1:]`, from position i on
RECURSIVE MergeLoop(_, _, _)
MergeLoop(m, list, i) ==
    IF i > Len(list) THEN m
    ELSE IF m = AttributeError THEN m
    ELSE MergeLoop(MergeOther(m, list[i]), list, i + 1)

\* no guard for the empty list: extracted_list[0] raises
merge_financials_NoGuard(list) ==
    IF list = <<>> THEN [type |-> "IndexError"]
    ELSE MergeLoop(list[1], list, 2)

\* every candidate, the first included, is merged into a fresh empty record
merge_financials_FreshSeed(list) ==
    IF list = <<>> THEN None
    ELSE MergeLoop(ExtractedFinancials("Unknown", "Unknown", "", "", 1,
                                       [x \in BalanceSheetFields |-> None],
                                       [x \in IncomeStatementFields |-> None]), list, 1)

\* lines 192-223
merge_financials(list) ==
    IF list = <<>> THEN None
    ELSE MergeLoop(list[1], list, 2)

\* `merged = extracted_list[0]` is an alias: the first element of the caller's
\* list is the object that is filled and returned
ListAfterMerge(list) ==
    IF list = <<>> \/ merge_financials(list) = AttributeError THEN list
    ELSE [list EXCEPT ![1] = merge_financials(list)]

(***************************************************************************)
(* Inputs of the merge specification                                       *)
(***************************************************************************)
MaxCands == 3

MetricFields == BalanceSheetFields \cup IncomeStatementFields

M10 == FinancialMetric("Jumlah Aset", 10)
M20 == FinancialMetric("Total Assets", 20)
MBg == FinancialMetric("Lainnya", 7)
MetricChoices == {None, M10, M20}

\* identity variants: an undetermined page and a page naming the company
Identities == {<<"Unknown", "">>, <<"PT Bumi", "31 Maret 2025">>}

\* a candidate whose field x holds v; the other fields are null on an
\* undetermined page and hold a background figure otherwise
Candidate(id, x, v) ==
    LET bg == IF id[1] = "Unknown" THEN None ELSE MBg
        f == [y \in MetricFields |-> IF y = x THEN v ELSE bg]
    IN ExtractedFinancials(id[1], id[2], "IDR", "Dalam Jutaan Rupiah", 1000000,
                           BalanceSheet(f), IncomeStatement(f))

CandidatesOn(x) == {Candidate(id, x, v) : id \in Identities, v \in MetricChoices}

SeqsUpTo(S, n) == UNION {[1..k -> S] : k \in 0..n}

IdleMerge ==
    /\ extracted_list = <<>>
    /\ restated = <<>>
    /\ merge_in = <<>>
    /\ merged = NotCalled

IdleRatios ==
    /\ data = None
    /\ ratios = NotCalled

IdleScale ==
    /\ text = ""
    /\ frags = <<>>
    /\ scale_result = NotCalled

IdleExtract ==
    /\ pdf = None
    /\ max_pages = 0
    /\ pdf_text = NotCalled

IdleFilter ==
    /\ pages_text = <<>>
    /\ relevant_pages = NotCalled

NotWritten == [type |-> "NotWritten"]

\* main has not looked at the document yet
MainAtStart ==
    /\ indices_to_process = {}
    /\ pending = {}
    /\ current = -1
    /\ attempts = [i \in 0..(Len(pages_text) - 1) |-> 0]
    /\ calls = [i \in 0..(Len(pages_text) - 1) |-> 0]
    /\ status = [i \in 0..(Len(pages_text) - 1) |-> "pending"]
    /\ extracted_results = <<>>
    /\ result_pages = <<>>
    /\ final_data = NotCalled
    /\ output_file = NotWritten
    /\ outcome = "running"

IdleMain ==
    /\ pc = "idle"
    /\ MainAtStart

InitMerge ==
    /\ mode = "merge"
    /\ IdleRatios
    /\ IdleScale
    /\ IdleExtract
    /\ IdleFilter
    /\ IdleMain
    /\ \E x \in MetricFields : extracted_list \in SeqsUpTo(CandidatesOn(x), MaxCands)
    /\ restated \in [1..Len(extracted_list) -> BOOLEAN]
    /\ merge_in = <<>>
    /\ merged = NotCalled

\* merged = merge_financials(extracted_list)
Merge ==
    /\ mode = "merge"
    /\ merged = NotCalled
    /\ merged' = merge_financials(extracted_list)
    /\ merge_in' = extracted_list
    /\ extracted_list' = ListAfterMerge(extracted_list)
    /\ UNCHANGED <<mode, extractVars, restated, ratioVars, scaleVars, filterVars, mainVars>>

NextMerge == Merge
SpecMerge == InitMerge /\ [][NextMerge]_vars

(***************************************************************************)
(* Inputs of the merge specification for the identity fields               *)
(***************************************************************************)
\* what a page may give as company name and as report period
CompanyNames == {"", "Unknown", "PT Bumi", "PT Adaro"}
ReportPeriods == {"", "Unknown", "31 Maret 2025", "30 Juni 2025"}

NamedCandidates ==
    {Candidate(<<cn, rp>>, "total_assets", M10) : cn \in CompanyNames, rp \in ReportPeriods}

InitMergeIdentity ==
    /\ mode = "merge"
    /\ IdleRatios
    /\ IdleScale
    /\ IdleExtract
    /\ IdleFilter
    /\ IdleMain
    /\ extracted_list \in SeqsUpTo(NamedCandidates, MaxCands)
    /\ restated = [i \in 1..Len(extracted_list) |-> FALSE]
    /\ merge_in = <<>>
    /\ merged = NotCalled

SpecMergeIdentity == InitMergeIdentity /\ [][NextMerge]_vars

(***************************************************************************)
(* Inputs of the merge specification for currency, scale and multiplier    *)
(***************************************************************************)
\* what a page may give as currency, scale and unit_multiplier
Units == {<<"IDR", "Dalam Jutaan Rupiah", 1000000>>, <<"USD", "In Thousands of USD", 1000>>}

\* a candidate as Candidate(id, x, v), reported in the units u
UnitCandidate(u, id, x, v) ==
    [Candidate(id, x, v) EXCEPT !.currency = u[1], !.scale = u[2], !.unit_multiplier = u[3]]

UnitCandidatesOn(x) ==
    {UnitCandidate(u, id, x, v) : u \in Units, id \in Identities, v \in MetricChoices}

InitMergeUnits ==
    /\ mode = "merge"
    /\ IdleRatios
    /\ IdleScale
    /\ IdleExtract
    /\ IdleFilter
    /\ IdleMain
    /\ \E x \in MetricFields : extracted_list \in SeqsUpTo(UnitCandidatesOn(x), MaxCands)
    /\ restated = [i \in 1..Len(extracted_list) |-> FALSE]
    /\ merge_in = <<>>
    /\ merged = NotCalled

SpecMergeUnits == InitMergeUnits /\ [][NextMerge]_vars

(***************************************************************************)
(* utils.py: calculate_ratios_structured                                   *)
(*                                                                         *)
(* A Python float is modelled as an exact fraction in lowest terms with a  *)
(* positive denominator; rounding of the binary representation is not      *)
(* modelled.  Dividing by a zero value raises ZeroDivisionError.           *)
(***************************************************************************)
Abs(n) == IF n < 0 THEN -n ELSE n

RECURSIVE Gcd(_, _)
Gcd(a, b) == IF b = 0 THEN a ELSE Gcd(b, a % b)

Float(n, d) ==
    LET g == Gcd(Abs(n), Abs(d))
        sgn == IF d < 0 THEN -1 ELSE 1
    IN [type |-> "float", num |-> sgn * (n \div g), den |-> sgn * (d \div g)]

Zero == Float(0, 1)

\* n / d for Python numbers
Divide(n, d) == IF d = 0 THEN ZeroDivisionError ELSE Float(n, d)

\* the truth value of an Optional[FinancialMetric]: a model object is always true
Truthy(m) == m # None

\* a percentage helper without the factor 100
div_NoPercent(n, d) ==
    IF n = None \/ d = None \/ d.value = 0 THEN Zero
    ELSE Float(n.value, d.value)

\* lines 286-289
div(n, d) ==
    IF n = None \/ d = None \/ d.value = 0 THEN Zero
    ELSE Float(n.value * 100, d.value)

\* lines 291-294
div_raw(n, d) ==
    IF n = None \/ d = None \/ d.value = 0 THEN Zero
    ELSE Float(n.value, d.value)

\* lines 306-312
InterestCoverage(is_stmt) ==
    IF Truthy(is_stmt.net_income) /\ Truthy(is_stmt.finance_cost) /\ is_stmt.finance_cost.value # 0
    THEN Divide(is_stmt.net_income.value + Abs(is_stmt.finance_cost.value),
                Abs(is_stmt.finance_cost.value))
    ELSE Zero

\* a Quick Ratio that is 0.0 when inventories is absent
QuickRatio_NeedsInventories(bs) ==
    IF Truthy(bs.current_assets) /\ Truthy(bs.current_liabilities) /\ Truthy(bs.inventories)
    THEN Divide(bs.current_assets.value - bs.inventories.value, bs.current_liabilities.value)
    ELSE Zero

\* lines 319-323
QuickRatio(bs) ==
    IF Truthy(bs.current_assets) /\ Truthy(bs.current_liabilities)
    THEN LET inv_val == IF Truthy(bs.inventories) THEN bs.inventories.value ELSE 0
         IN Divide(bs.current_assets.value - inv_val, bs.current_liabilities.value)
    ELSE Zero

RatioNames == {"GPM", "NPM", "ROE", "ROA", "DER", "Interest Coverage",
               "Current Ratio", "Cash Ratio", "Quick Ratio"}

\* lines 296-323: the value assigned to ratios[k]
RatioOf(k, d) ==
    LET bs == d.balance_sheet
        is_stmt == d.income_statement
    IN CASE k = "GPM" -> div(is_stmt.gross_profit, is_stmt.revenues)
         [] k = "NPM" -> div(is_stmt.net_income, is_stmt.revenues)
         [] k = "ROE" -> div(is_stmt.net_income, bs.total_equity)
         [] k = "ROA" -> div(is_stmt.net_income, bs.total_assets)
         [] k = "DER" -> div_raw(bs.total_liabilities, bs.total_equity)
         [] k = "Interest Coverage" -> InterestCoverage(is_stmt)
         [] k = "Current Ratio" -> div_raw(bs.current_assets, bs.current_liabilities)
         [] k = "Cash Ratio" -> div_raw(bs.cash_equivalents, bs.current_liabilities)
         [] k = "Quick Ratio" -> QuickRatio(bs)

\* lines 275-325: the mapping returned, or the exception that leaves the function
calculate_ratios_structured(d) ==
    IF \E k \in RatioNames : RatioOf(k, d) = ZeroDivisionError THEN ZeroDivisionError
    ELSE [type |-> "dict", items |-> [k \in RatioNames |-> RatioOf(k, d)]]

(***************************************************************************)
(* Inputs of the ratio specification                                       *)
(***************************************************************************)
MaxValue == 2

Metric(v) == FinancialMetric("angka", v)

ValueChoices == {None} \cup {Metric(v) : v \in (0..MaxValue) \cup {-MaxValue}}

Record(f) == ExtractedFinancials("PT Bumi", "31 Maret 2025", "IDR", "Satuan Penuh", 1,
                                 BalanceSheet(f), IncomeStatement(f))

\* a record with no figure, a record with every figure, and the two worked
\* examples of the ratio engine
BaseFigures ==
    { [x \in MetricFields |-> None],
      [x \in MetricFields |-> Metric(3)],
      [x \in MetricFields |->
          CASE x = "revenues" -> Metric(1000000)
            [] x = "gross_profit" -> Metric(400000)
            [] x = "net_income" -> Metric(100000)
            [] x = "total_equity" -> Metric(500000)
            [] x = "total_assets" -> Metric(2000000)
            [] OTHER -> None],
      [x \in MetricFields |->
          CASE x = "current_assets" -> Metric(300000)
            [] x = "inventories" -> Metric(50000)
            [] x = "current_liabilities" -> Metric(150000)
            [] OTHER -> None] }

InitRatios ==
    /\ mode = "ratios"
    /\ IdleMerge
    /\ IdleScale
    /\ IdleExtract
    /\ IdleFilter
    /\ IdleMain
    /\ \E base \in BaseFigures : \E x \in MetricFields : \E y \in MetricFields :
       \E v \in ValueChoices : \E w \in ValueChoices :
          data = Record([[base EXCEPT ![x] = v] EXCEPT ![y] = w])
    /\ ratios = NotCalled

\* ratios = calculate_ratios_structured(final_data)
CalculateRatios ==
    /\ mode = "ratios"
    /\ ratios = NotCalled
    /\ ratios' = calculate_ratios_structured(data)
    /\ UNCHANGED <<mode, extractVars, data, mergeVars, scaleVars, filterVars, mainVars>>

NextRatios == CalculateRatios
SpecRatios == InitRatios /\ [][NextRatios]_vars

(***************************************************************************)
(* Properties of calculate_ratios_structured                               *)
(***************************************************************************)
RatiosReturned == mode = "ratios" /\ ratios # NotCalled

\* the metric a ratio divides by
Denominator(k, d) ==
    CASE k \in {"GPM", "NPM"} -> d.income_statement.revenues
      [] k \in {"ROE", "DER"} -> d.balance_sheet.total_equity
      [] k = "ROA" -> d.balance_sheet.total_assets
      [] k = "Interest Coverage" -> d.income_statement.finance_cost
      [] k \in {"Current Ratio", "Cash Ratio", "Quick Ratio"} -> d.balance_sheet.current_liabilities

AbsentOrZero(m) == m = None \/ m.value = 0

\* C3: calculate_ratios_structured never raises, and every ratio whose
\* denominator metric is absent or has value 0 is 0.0.
C3_SafeDivision ==
    RatiosReturned =>
        /\ ratios.type = "dict"
        /\ \A k \in RatioNames : AbsentOrZero(Denominator(k, data)) => ratios.items[k] = Zero

\* the division of the Quick Ratio is defined: it does not divide by a zero value
QuickDefined(d) ==
    ~(/\ d.balance_sheet.current_assets # None
      /\ d.balance_sheet.current_liabilities # None
      /\ d.balance_sheet.current_liabilities.value = 0)

\* operands n and d are present and d is not zero
Operands(n, d) == n # None /\ d # None /\ d.value # 0

\* r is the float n / d * factor: numerator and denominator of r, both times
\* the same k, are n * factor and d
IsQuotient(r, n, d, factor) ==
    /\ r.type = "float"
    /\ r.den > 0
    /\ LET k == d \div r.den
       IN d = r.den * k /\ n * factor = r.num * k

Number(n) == [type |-> "float", num |-> n, den |-> 1]

\* C16: with the operands present and non-zero denominators GPM, NPM, ROE and
\* ROA are gross_profit / revenues, net_income / revenues, net_income /
\* total_equity and net_income / total_assets times 100, and DER is
\* total_liabilities / total_equity without the factor; for revenues 1,000,000,
\* gross_profit 400,000, net_income 100,000, total_equity 500,000 and
\* total_assets 2,000,000 the results are GPM 40, NPM 10, ROE 20 and ROA 5.
C16_RatioFormulas ==
    (RatiosReturned /\ QuickDefined(data)) =>
        LET bs == data.balance_sheet
            is_stmt == data.income_statement
        IN /\ ratios.type = "dict"
           /\ Operands(is_stmt.gross_profit, is_stmt.revenues) =>
                 IsQuotient(ratios.items["GPM"], is_stmt.gross_profit.value, is_stmt.revenues.value, 100)
           /\ Operands(is_stmt.net_income, is_stmt.revenues) =>
                 IsQuotient(ratios.items["NPM"], is_stmt.net_income.value, is_stmt.revenues.value, 100)
           /\ Operands(is_stmt.net_income, bs.total_equity) =>
                 IsQuotient(ratios.items["ROE"], is_stmt.net_income.value, bs.total_equity.value, 100)
           /\ Operands(is_stmt.net_income, bs.total_assets) =>
                 IsQuotient(ratios.items["ROA"], is_stmt.net_income.value, bs.total_assets.value, 100)
           /\ Operands(bs.total_liabilities, bs.total_equity) =>
                 IsQuotient(ratios.items["DER"], bs.total_liabilities.value, bs.total_equity.value, 1)
           /\ ( /\ is_stmt.revenues = Metric(1000000)
                /\ is_stmt.gross_profit = Metric(400000)
                /\ is_stmt.net_income = Metric(100000)
                /\ bs.total_equity = Metric(500000)
                /\ bs.total_assets = Metric(2000000) ) =>
                 /\ ratios.items["GPM"] = Number(40)
                 /\ ratios.items["NPM"] = Number(10)
                 /\ ratios.items["ROE"] = Number(20)
                 /\ ratios.items["ROA"] = Number(5)

\* the worked example, with total_liabilities 2 so that DER is 2 / 500,000
C16_Witness ==
    /\ RatiosReturned
    /\ data.income_statement.revenues = Metric(1000000)
    /\ data.income_statement.gross_profit = Metric(400000)
    /\ data.income_statement.net_income = Metric(100000)
    /\ data.balance_sheet.total_equity = Metric(500000)
    /\ data.balance_sheet.total_assets = Metric(2000000)
    /\ data.balance_sheet.total_liabilities = Metric(2)
    /\ ratios.type = "dict"
    /\ ratios.items["GPM"] = Number(40)
    /\ ratios.items["ROA"] = Number(5)
    /\ ratios.items["DER"] = [type |-> "float", num |-> 1, den |-> 250000]

\* C17: Quick Ratio is (current_assets - inventories) / current_liabilities
\* with an absent inventories counting as 0, and 0.0 whenever current_assets or
\* current_liabilities is absent; for current_assets 300,000 and
\* current_liabilities 150,000 it is 2.0 without inventories and
\* 250,000 / 150,000 with inventories 50,000.
C17_QuickRatio ==
    RatiosReturned =>
        LET bs == data.balance_sheet
            inv == IF bs.inventories = None THEN 0 ELSE bs.inventories.value
        IN /\ (bs.current_assets = None \/ bs.current_liabilities = None) =>
                 (ratios.type = "dict" /\ ratios.items["Quick Ratio"] = Zero)
           /\ (bs.current_assets # None /\ bs.current_liabilities # None
                   /\ bs.current_liabilities.value # 0) =>
                 /\ ratios.type = "dict"
                 /\ IsQuotient(ratios.items["Quick Ratio"], bs.current_assets.value - inv,
                               bs.current_liabilities.value, 1)
           /\ (bs.current_assets = Metric(300000) /\ bs.current_liabilities = Metric(150000)) =>
                 /\ bs.inventories = None => ratios.items["Quick Ratio"] = Number(2)
                 /\ bs.inventories = Metric(50000) =>
                        ratios.items["Quick Ratio"] = [type |-> "float", num |-> 5, den |-> 3]

\* current_assets 300,000 and current_liabilities 150,000 without inventories
C17_Witness ==
    /\ RatiosReturned
    /\ data.balance_sheet.current_assets = Metric(300000)
    /\ data.balance_sheet.current_liabilities = Metric(150000)
    /\ data.balance_sheet.inventories = None
    /\ ratios.type = "dict"
    /\ ratios.items["Quick Ratio"] = Number(2)

(***************************************************************************)
(* Python strings: lower(), slicing and the `in` operator                  *)
(***************************************************************************)
UpperCase == "ABCDEFGHIJKLMNOPQRSTUVWXYZ"
LowerCase == "abcdefghijklmnopqrstuvwxyz"

\* the lower-case letter of each upper-case letter
LowerOf ==
    [c \in {SubSeq(UpperCase, i, i) : i \in 1..Len(UpperCase)} |->
        LET i == CHOOSE j \in 1..Len(UpperCase) : SubSeq(UpperCase, j, j) = c
        IN SubSeq(LowerCase, i, i)]

\* str.lower() on one character
LowerChar(c) == IF c \in DOMAIN LowerOf THEN LowerOf[c] ELSE c

\* str.lower()
RECURSIVE Lower(_)
Lower(s) ==
    IF Len(s) = 0 THEN s
    ELSE IF Len(s) = 1 THEN LowerChar(s)
    ELSE LET h == Len(s) \div 2
         IN Lower(SubSeq(s, 1, h)) \o Lower(SubSeq(s, h + 1, Len(s)))

Min(a, b) == IF a < b THEN a ELSE b

\* s[:n]
Slice(s, n) == SubSeq(s, 1, Min(n, Len(s)))

\* kw in s
Contains(kw, s) == \E i \in 1..(Len(s) - Len(kw) + 1) : SubSeq(s, i, i + Len(kw) - 1) = kw

\* any(kw in s for kw in kws)
AnyIn(kws, s) == \E kw \in kws : Contains(kw, s)

(***************************************************************************)
(* extractor.py: detect_scale                                              *)
(***************************************************************************)
\* line 45: the header region
HeaderLen == 2000

\* lines 48, 52, 56
kw_billions == {"miliaran rupiah", "milyaran rupiah", "in billions", "dalam miliaran"}
kw_millions == {"jutaan rupiah", "in millions", "dalam jutaan"}
kw_thousands == {"ribuan rupiah", "in thousands", "dalam ribuan"}

\* lines 49, 53, 57, 59
Billions == Tuple(<<"Miliaran (Billions)", 1000000000>>)
Millions == Tuple(<<"Jutaan (Millions)", 1000000>>)
Thousands == Tuple(<<"Ribuan (Thousands)", 1000>>)
FullUnits == Tuple(<<"Satuan Penuh (Full Units)", 1>>)

\* the keywords are looked for in the text as written
detect_scale_CaseSensitive(t) ==
    LET text_lower == Slice(t, HeaderLen)
    IN IF AnyIn(kw_billions, text_lower) THEN Billions
       ELSE IF AnyIn(kw_millions, text_lower) THEN Millions
       ELSE IF AnyIn(kw_thousands, text_lower) THEN Thousands
       ELSE FullUnits

\* the magnitudes are tried smallest first
detect_scale_ThousandsFirst(t) ==
    LET text_lower == Slice(Lower(t), HeaderLen)
    IN IF AnyIn(kw_thousands, text_lower) THEN Thousands
       ELSE IF AnyIn(kw_millions, text_lower) THEN Millions
       ELSE IF AnyIn(kw_billions, text_lower) THEN Billions
       ELSE FullUnits

\* lines 40-59
detect_scale(t) ==
    LET text_lower == Slice(Lower(t), HeaderLen)
    IN IF AnyIn(kw_billions, text_lower) THEN Billions
       ELSE IF AnyIn(kw_millions, text_lower) THEN Millions
       ELSE IF AnyIn(kw_thousands, text_lower) THEN Thousands
       ELSE FullUnits

(***************************************************************************)
(* Inputs of the scale specification: a page text is a few pieces joined   *)
(* by single spaces                                                        *)
(***************************************************************************)
MaxFragments == 2

RECURSIVE Pad(_)
Pad(n) == IF n = 0 THEN "" ELSE IF n = 1 THEN "." ELSE Pad(n \div 2) \o Pad(n - n \div 2)

\* text that fills the header up to the last 12 characters, and text that fills it
LongFillers == {Pad(HeaderLen - 13), Pad(HeaderLen)}

\* the keywords as a report prints them
CasedKeywords == {"In Billions", "DALAM JUTAAN", "Ribuan Rupiah"}

\* text that carries no keyword
Fillers == {"in million", "miliar rupiah", "LAPORAN POSISI KEUANGAN"}

Fragments == kw_billions \cup kw_millions \cup kw_thousands \cup CasedKeywords
                \cup Fillers \cup LongFillers

RECURSIVE Join(_)
Join(fs) ==
    IF fs = <<>> THEN ""
    ELSE IF Len(fs) = 1 THEN fs[1]
    ELSE fs[1] \o " " \o Join(Tail(fs))

InitScale ==
    /\ mode = "scale"
    /\ IdleMerge
    /\ IdleRatios
    /\ IdleExtract
    /\ IdleFilter
    /\ IdleMain
    /\ frags \in SeqsUpTo(Fragments, MaxFragments)
    /\ text = Join(frags)
    /\ scale_result = NotCalled

\* detected_scale_str, multiplier = detect_scale(text_content)
DetectScale ==
    /\ mode = "scale"
    /\ scale_result = NotCalled
    /\ scale_result' = detect_scale(text)
    /\ UNCHANGED <<mode, extractVars, text, frags, mergeVars, ratioVars, filterVars, mainVars>>

NextScale == DetectScale
SpecScale == InitScale /\ [][NextScale]_vars

(***************************************************************************)
(* Properties of detect_scale                                              *)
(***************************************************************************)
ScaleReturned == mode = "scale" /\ scale_result # NotCalled

\* the offset in the text at which piece i starts, counted from 0
RECURSIVE StartOf(_)
StartOf(i) == IF i = 1 THEN 0 ELSE StartOf(i - 1) + Len(frags[i - 1]) + 1

\* piece i lies wholly within the header
InHeader(i) == StartOf(i) + Len(frags[i]) <= HeaderLen

\* the pieces that are a keyword of the given list, in any letter case, within the header
KeywordPieces(kws) == {i \in 1..Len(frags) : InHeader(i) /\ Lower(frags[i]) \in kws}

AllKeywords == kw_billions \cup kw_millions \cup kw_thousands

Expected(kw) ==
    IF kw \in kw_billions THEN Billions
    ELSE IF kw \in kw_millions THEN Millions
    ELSE Thousands

\* C9: a text whose header holds exactly one supported keyword returns that
\* keyword's magnitude, with multiplier 1e9, 1e6 or 1e3; a text holding no
\* keyword returns the full-unit default with multiplier 1.
C9_KeywordGivesItsMagnitude ==
    ScaleReturned =>
        /\ \A i \in 1..Len(frags) :
              KeywordPieces(AllKeywords) = {i} => scale_result = Expected(Lower(frags[i]))
        /\ KeywordPieces(AllKeywords) = {} =>
              (scale_result = FullUnits /\ scale_result.items[2] = 1)
        /\ Billions.items[2] = 1000000000 /\ Millions.items[2] = 1000000
        /\ Thousands.items[2] = 1000

C9_Witness ==
    /\ ScaleReturned
    /\ frags = <<"LAPORAN POSISI KEUANGAN", "In Billions">>
    /\ scale_result = Billions

\* C10: a header holding keywords of several magnitudes returns billions if any
\* is present, else millions, else thousands, wherever the keywords stand; and
\* no keyword of one magnitude occurs inside a keyword of another magnitude.
C10_FixedPriority ==
    /\ ScaleReturned =>
          scale_result = IF KeywordPieces(kw_billions) # {} THEN Billions
                         ELSE IF KeywordPieces(kw_millions) # {} THEN Millions
                         ELSE IF KeywordPieces(kw_thousands) # {} THEN Thousands
                         ELSE FullUnits
    /\ \A group \in {kw_billions, kw_millions, kw_thousands} :
          \A k \in group : \A other \in AllKeywords \ group : ~Contains(k, other)

\* a thousands keyword ahead of a billions keyword
C10_Witness ==
    /\ ScaleReturned
    /\ frags = <<"in thousands", "milyaran rupiah">>
    /\ scale_result = Billions

(***************************************************************************)
(* extractor.py: extract_text_from_pdf                                     *)
(*                                                                         *)
(* The file is what the function can observe of it: whether the path       *)
(* exists, whether pypdf can open it, and for each page what               *)
(* page.extract_text() does: return a text, return an empty text or None,  *)
(* or raise.                                                               *)
(***************************************************************************)
FileNotFoundError == [type |-> "FileNotFoundError"]
Raises == [type |-> "raises"]
Str(t) == [type |-> "str", value |-> t]
List(items) == [type |-> "list", items |-> items]

\* line 18: max_pages: int = 20
DefaultMaxPages == 20

\* line 33: text if text else ""
TextOrEmpty(t) == IF t.type = "str" /\ t.value # "" THEN t.value ELSE ""

\* lines 31-36: the loop over pages_to_read, from page k on; an exception
\* raised by page.extract_text() leaves the loop for the except block
RECURSIVE ReadPages(_, _, _)
ReadPages(pages_to_read, k, acc) ==
    IF k > Len(pages_to_read) THEN List(acc)
    ELSE IF pages_to_read[k] = Raises THEN List(<<>>)
    ELSE ReadPages(pages_to_read, k + 1, Append(acc, TextOrEmpty(pages_to_read[k])))

\* lines 18-38
extract_text_from_pdf(file, cap) ==
    IF ~file.exists THEN FileNotFoundError               \* lines 23-24
    ELSE IF ~file.parseable THEN List(<<>>)              \* line 28 raises, lines 34-36
    ELSE ReadPages(SubSeq(file.pages, 1, Min(cap, Len(file.pages))), 1, <<>>)

(***************************************************************************)
(* Inputs of the extraction specification                                  *)
(***************************************************************************)
MaxPdfPages == 3

PageOutcomes == {Str("Jumlah Aset 100"), Str("Laba bersih 20"), Str(""), None, Raises}

\* a file longer than the default cap, every page with its own text
LongPdf == [k \in 1..(DefaultMaxPages + 1) |-> Str(Pad(k))]

PdfFile(e, p, pages) == [type |-> "file", exists |-> e, parseable |-> p, pages |-> pages]

InitExtract ==
    /\ mode = "extract"
    /\ IdleMerge
    /\ IdleRatios
    /\ IdleScale
    /\ IdleFilter
    /\ IdleMain
    /\ \E pages \in SeqsUpTo(PageOutcomes, MaxPdfPages) \cup {LongPdf} :
          \E ep \in {<<FALSE, FALSE>>, <<TRUE, FALSE>>, <<TRUE, TRUE>>} :
              pdf = PdfFile(ep[1], ep[2], pages)
    /\ max_pages \in {1, 2, DefaultMaxPages}
    /\ pdf_text = NotCalled

\* pages_text = extract_text_from_pdf(pdf_path, max_pages)
ExtractText ==
    /\ mode = "extract"
    /\ pdf_text = NotCalled
    /\ pdf_text' = extract_text_from_pdf(pdf, max_pages)
    /\ UNCHANGED <<mode, pdf, max_pages, mergeVars, ratioVars, scaleVars, filterVars, mainVars>>

NextExtract == ExtractText
SpecExtract == InitExtract /\ [][NextExtract]_vars

(***************************************************************************)
(* Properties of extract_text_from_pdf                                     *)
(***************************************************************************)
ExtractReturned == mode = "extract" /\ pdf_text # NotCalled

\* C13: on an existing, parseable document the result is a sequence of length
\* min(page_count, max_pages) whose entry i is the text of page i, and a page
\* whose text cannot be extracted gives an empty string at its index without
\* failing or emptying the result for the whole document.
C13_PerPageText ==
    (ExtractReturned /\ pdf.exists /\ pdf.parseable) =>
        /\ pdf_text.type = "list"
        /\ Len(pdf_text.items) = Min(Len(pdf.pages), max_pages)
        /\ \A i \in 1..Len(pdf_text.items) :
              pdf_text.items[i] = IF pdf.pages[i].type = "str" THEN pdf.pages[i].value ELSE ""

(***************************************************************************)
(* extractor.py: filter_relevant_pages                                     *)
(***************************************************************************)
\* lines 72-81
kw_bs_start == {"laporan posisi keuangan", "statement of financial position"}
kw_is_start == {"laporan laba rugi", "statement of profit or loss",
                "laba rugi dan penghasilan komprehensif"}
kw_bs_end == {"jumlah liabilitas dan ekuitas", "total liabilities and equity"}
kw_is_end == {"laba (rugi) per saham", "earnings (loss) per share", "laba per saham"}
kw_exclude == {"daftar isi", "table of contents"}
kw_stop_all == {"catatan atas laporan keuangan", "notes to the financial statements"}

\* lines 89, 93: the leading text; lines 100, 109: the region searched for a start
LeadLen == 500
StartLen == 1000

\* line 83: current_section = None
NoSection == "None"

\* line 66-69, 83: the state before the first page
FilterStart ==
    [current_section |-> NoSection,
     relevant_pages |-> [balance_sheet |-> <<>>, income_statement |-> <<>>]]

\* a section start that does not look for the end keyword on its own page
FilterPage_NoSamePageEnd(st, i, t) ==
    LET text_lower == Lower(t)
        section == IF AnyIn(kw_stop_all, Slice(text_lower, LeadLen)) THEN NoSection
                   ELSE st.current_section
        rp == st.relevant_pages
    IN IF AnyIn(kw_exclude, Slice(text_lower, LeadLen)) THEN st
       ELSE IF AnyIn(kw_bs_start, Slice(text_lower, StartLen))
       THEN [current_section |-> "bs",
             relevant_pages |-> [rp EXCEPT !.balance_sheet = Append(@, i)]]
       ELSE IF AnyIn(kw_is_start, Slice(text_lower, StartLen))
       THEN [current_section |-> "is",
             relevant_pages |-> [rp EXCEPT !.income_statement = Append(@, i)]]
       ELSE IF section = "bs"
       THEN [current_section |-> IF AnyIn(kw_bs_end, text_lower) THEN NoSection ELSE "bs",
             relevant_pages |-> [rp EXCEPT !.balance_sheet = Append(@, i)]]
       ELSE IF section = "is"
       THEN [current_section |-> IF AnyIn(kw_is_end, text_lower) THEN NoSection ELSE "is",
             relevant_pages |-> [rp EXCEPT !.income_statement = Append(@, i)]]
       ELSE [st EXCEPT !.current_section = section]

\* a loop body without the global stop of lines 93-94
FilterPage_NoGlobalStop(st, i, t) ==
    LET text_lower == Lower(t)
        section == st.current_section
        rp == st.relevant_pages
    IN IF AnyIn(kw_exclude, Slice(text_lower, LeadLen)) THEN st
       ELSE IF AnyIn(kw_bs_start, Slice(text_lower, StartLen))
       THEN [current_section |-> IF AnyIn(kw_bs_end, text_lower) THEN NoSection ELSE "bs",
             relevant_pages |-> [rp EXCEPT !.balance_sheet = Append(@, i)]]
       ELSE IF AnyIn(kw_is_start, Slice(text_lower, StartLen))
       THEN [current_section |-> IF AnyIn(kw_is_end, text_lower) THEN NoSection ELSE "is",
             relevant_pages |-> [rp EXCEPT !.income_statement = Append(@, i)]]
       ELSE IF section = "bs"
       THEN [current_section |-> IF AnyIn(kw_bs_end, text_lower) THEN NoSection ELSE "bs",
             relevant_pages |-> [rp EXCEPT !.balance_sheet = Append(@, i)]]
       ELSE IF section = "is"
       THEN [current_section |-> IF AnyIn(kw_is_end, text_lower) THEN NoSection ELSE "is",
             relevant_pages |-> [rp EXCEPT !.income_statement = Append(@, i)]]
       ELSE [st EXCEPT !.current_section = section]

\* a balance-sheet start without its `continue`: the page falls through to the
\* continuation test and is recorded a second time
FilterPage_NoContinue(st, i, t) ==
    LET text_lower == Lower(t)
        section == IF AnyIn(kw_stop_all, Slice(text_lower, LeadLen)) THEN NoSection
                   ELSE st.current_section
        rp == st.relevant_pages
    IN IF AnyIn(kw_exclude, Slice(text_lower, LeadLen)) THEN st
       ELSE IF AnyIn(kw_bs_start, Slice(text_lower, StartLen))
       THEN IF AnyIn(kw_bs_end, text_lower)
            THEN [current_section |-> NoSection,
                  relevant_pages |-> [rp EXCEPT !.balance_sheet = Append(@, i)]]
            ELSE [current_section |-> "bs",
                  relevant_pages |-> [rp EXCEPT !.balance_sheet = Append(Append(@, i), i)]]
       ELSE IF AnyIn(kw_is_start, Slice(text_lower, StartLen))
       THEN [current_section |-> IF AnyIn(kw_is_end, text_lower) THEN NoSection ELSE "is",
             relevant_pages |-> [rp EXCEPT !.income_statement = Append(@, i)]]
       ELSE IF section = "bs"
       THEN [current_section |-> IF AnyIn(kw_bs_end, text_lower) THEN NoSection ELSE "bs",
             relevant_pages |-> [rp EXCEPT !.balance_sheet = Append(@, i)]]
       ELSE IF section = "is"
       THEN [current_section |-> IF AnyIn(kw_is_end, text_lower) THEN NoSection ELSE "is",
             relevant_pages |-> [rp EXCEPT !.income_statement = Append(@, i)]]
       ELSE [st EXCEPT !.current_section = section]

\* lines 85-125: the loop body for page i with text t
FilterPage(st, i, t) ==
    LET text_lower == Lower(t)
        \* lines 93-94
        section == IF AnyIn(kw_stop_all, Slice(text_lower, LeadLen)) THEN NoSection
                   ELSE st.current_section
        rp == st.relevant_pages
    IN \* lines 89-90
       IF AnyIn(kw_exclude, Slice(text_lower, LeadLen)) THEN st
       \* lines 100-106
       ELSE IF AnyIn(kw_bs_start, Slice(text_lower, StartLen))
       THEN [current_section |-> IF AnyIn(kw_bs_end, text_lower) THEN NoSection ELSE "bs",
             relevant_pages |-> [rp EXCEPT !.balance_sheet = Append(@, i)]]
       \* lines 109-115
       ELSE IF AnyIn(kw_is_start, Slice(text_lower, StartLen))
       THEN [current_section |-> IF AnyIn(kw_is_end, text_lower) THEN NoSection ELSE "is",
             relevant_pages |-> [rp EXCEPT !.income_statement = Append(@, i)]]
       \* lines 118-121
       ELSE IF section = "bs"
       THEN [current_section |-> IF AnyIn(kw_bs_end, text_lower) THEN NoSection ELSE "bs",
             relevant_pages |-> [rp EXCEPT !.balance_sheet = Append(@, i)]]
       \* lines 122-125
       ELSE IF section = "is"
       THEN [current_section |-> IF AnyIn(kw_is_end, text_lower) THEN NoSection ELSE "is",
             relevant_pages |-> [rp EXCEPT !.income_statement = Append(@, i)]]
       ELSE [st EXCEPT !.current_section = section]

\* line 85: `for i, text in enumerate(pages_text)`, the state after the first n pages
RECURSIVE FilterLoop(_, _)
FilterLoop(pages, n) ==
    IF n = 0 THEN FilterStart
    ELSE FilterPage(FilterLoop(pages, n - 1), n - 1, pages[n])

\* lines 61-127
filter_relevant_pages(pages) == FilterLoop(pages, Len(pages)).relevant_pages

(***************************************************************************)
(* Inputs of the filter specification                                      *)
(***************************************************************************)
MaxPages == 3

PageTOC == "DAFTAR ISI\nLaporan Posisi Keuangan 1\nLaporan Laba Rugi 3"
PageBSStartEnd == "LAPORAN POSISI KEUANGAN\nJumlah Aset 100\nJUMLAH LIABILITAS DAN EKUITAS 100"
PageFiller == "Beban pokok penjualan 30"
PageISStart == "LAPORAN LABA RUGI\nPendapatan 50"
PageISEnd == "Laba bersih 20\nLaba per saham 2"
PageNotes == "CATATAN ATAS LAPORAN KEUANGAN\n1. Umum"
PageBSStart == "STATEMENT OF FINANCIAL POSITION\nTotal assets 100"
PageBSEnd == "Total equity 40\nTOTAL LIABILITIES AND EQUITY 100"
\* the notes begin on a page that also opens the income statement
PageNotesISStart == "Notes to the financial statements\nStatement of profit or loss"
\* a start keyword and a notes marker that stand too far down the page to count
PageLateBSStart == Pad(StartLen) \o "Laporan Posisi Keuangan"
PageLateNotes == Pad(LeadLen) \o "Catatan atas laporan keuangan"

PageKinds == {PageTOC, PageBSStartEnd, PageFiller, PageISStart, PageISEnd, PageNotes,
              PageBSStart, PageBSEnd, PageNotesISStart, PageLateBSStart, PageLateNotes}

\* [TOC, BS start and end, filler, IS start, IS body, IS end, Notes, BS start, BS end]
NinePageDocument ==
    <<PageTOC, PageBSStartEnd, PageFiller, PageISStart, PageFiller, PageISEnd,
      PageNotes, PageBSStart, PageBSEnd>>

InitFilter ==
    /\ mode = "filter"
    /\ IdleMerge
    /\ IdleRatios
    /\ IdleScale
    /\ IdleExtract
    /\ pages_text \in SeqsUpTo(PageKinds, MaxPages) \cup {NinePageDocument}
    /\ relevant_pages = NotCalled
    /\ IdleMain

\* relevant_map = filter_relevant_pages(pages_text)
FilterPages ==
    /\ mode = "filter"
    /\ relevant_pages = NotCalled
    /\ relevant_pages' = filter_relevant_pages(pages_text)
    /\ UNCHANGED <<mode, extractVars, pages_text, mergeVars, ratioVars, scaleVars, mainVars>>

NextFilter == FilterPages
SpecFilter == InitFilter /\ [][NextFilter]_vars

(***************************************************************************)
(* Inputs of the filter specification for the pages that carry the notes   *)
(* marker                                                                  *)
(***************************************************************************)
\* a table of contents that lists the notes
PageTOCNotes == "DAFTAR ISI\nCatatan atas Laporan Keuangan 5"
\* the notes begin on a page that holds a whole balance sheet
PageNotesBSStartEnd ==
    "Catatan atas laporan keuangan\nLaporan Posisi Keuangan\nJumlah liabilitas dan ekuitas 100"

StopPageKinds == {PageBSStart, PageISStart, PageFiller, PageBSEnd, PageNotes, PageNotesISStart,
                  PageNotesBSStartEnd, PageTOCNotes, PageLateNotes}

InitFilterStop ==
    /\ mode = "filter"
    /\ IdleMerge
    /\ IdleRatios
    /\ IdleScale
    /\ IdleExtract
    /\ pages_text \in SeqsUpTo(StopPageKinds, MaxPages)
    /\ relevant_pages = NotCalled
    /\ IdleMain

SpecFilterStop == InitFilterStop /\ [][NextFilter]_vars

(***************************************************************************)
(* Properties of filter_relevant_pages                                     *)
(***************************************************************************)
FilterReturned == mode = "filter" /\ relevant_pages # NotCalled

\* C4: on the nine-page document the balance-sheet list is exactly [1, 7, 8]
\* and the income-statement list exactly [3, 4, 5]; pages 0, 2 and 6 are in
\* neither list.
C4_NinePageDocument ==
    (FilterReturned /\ pages_text = NinePageDocument) =>
        /\ relevant_pages.balance_sheet = <<1, 7, 8>>
        /\ relevant_pages.income_statement = <<3, 4, 5>>

C4_Witness ==
    /\ FilterReturned
    /\ pages_text = NinePageDocument
    /\ \A i \in {0, 2, 6} :
          \A k \in 1..3 : relevant_pages.balance_sheet[k] # i /\ relevant_pages.income_statement[k] # i
    /\ Len(relevant_pages.balance_sheet) = 3 /\ Len(relevant_pages.income_statement) = 3

StrictlyAscending(list) == \A k \in 1..(Len(list) - 1) : list[k] < list[k + 1]

\* C12: for any sequence of pages, every index appears in at most one of the two
\* lists and at most once there, each list is strictly ascending, and every
\* index is a valid page index.
C12_FilterInvariant ==
    FilterReturned =>
        LET bs == relevant_pages.balance_sheet
            is == relevant_pages.income_statement
        IN /\ StrictlyAscending(bs)
           /\ StrictlyAscending(is)
           /\ \A k \in 1..Len(bs) : \A l \in 1..Len(is) : bs[k] # is[l]
           /\ \A k \in 1..Len(bs) : bs[k] \in 0..(Len(pages_text) - 1)
           /\ \A l \in 1..Len(is) : is[l] \in 0..(Len(pages_text) - 1)

\* an open balance sheet, then an income statement that runs on to the last page
C12_Witness ==
    /\ FilterReturned
    /\ pages_text = <<PageBSStart, PageFiller, PageISStart>>
    /\ relevant_pages.balance_sheet = <<0, 1>>
    /\ relevant_pages.income_statement = <<2>>

\* what page k of pages_text (the page with index k - 1) carries
LeadOf(k) == Slice(Lower(pages_text[k]), LeadLen)
HasStop(k) == AnyIn(kw_stop_all, LeadOf(k))
HasExclude(k) == AnyIn(kw_exclude, LeadOf(k))
HasBSStart(k) == AnyIn(kw_bs_start, Slice(Lower(pages_text[k]), StartLen))
HasISStart(k) == AnyIn(kw_is_start, Slice(Lower(pages_text[k]), StartLen))
HasStart(k) == HasBSStart(k) \/ HasISStart(k)

\* the section a start on page k opens, and whether the page also ends it
StartedOn(k) == IF HasBSStart(k) THEN "bs" ELSE "is"
EndsOn(k, section) ==
    AnyIn(IF section = "bs" THEN kw_bs_end ELSE kw_is_end, Lower(pages_text[k]))

RecordedIn(k, section) ==
    LET list == IF section = "bs" THEN relevant_pages.balance_sheet
                ELSE relevant_pages.income_statement
    IN \E j \in 1..Len(list) : list[j] = k - 1

Unclassified(k) == ~RecordedIn(k, "bs") /\ ~RecordedIn(k, "is")

\* page k + 1 exists and carries no keyword of its own in its leading text
PlainSuccessor(k) ==
    /\ k + 1 <= Len(pages_text)
    /\ ~HasExclude(k + 1) /\ ~HasStop(k + 1) /\ ~HasStart(k + 1)

\* the pages after k, up to m, carry no start keyword
NoStartBetween(k, m) == \A j \in (k + 1)..m : ~HasStart(j)

\* the start on page k opens its section: a following page without a keyword of
\* its own continues the section, unless the end keyword of the section stands
\* on page k itself
OpensSection(k) ==
    PlainSuccessor(k) =>
        IF EndsOn(k, StartedOn(k)) THEN Unclassified(k + 1)
        ELSE RecordedIn(k + 1, StartedOn(k))

\* what the notes marker on page k does: with a start keyword the page is
\* recorded under the new section and opens it, otherwise the page and the
\* pages after it, up to the next start keyword, are unclassified
EndsOpenSection(k) ==
    IF HasStart(k)
    THEN /\ RecordedIn(k, StartedOn(k))
         /\ ~RecordedIn(k, IF StartedOn(k) = "bs" THEN "is" ELSE "bs")
         /\ OpensSection(k)
    ELSE /\ Unclassified(k)
         /\ \A m \in (k + 1)..Len(pages_text) : NoStartBetween(k, m) => Unclassified(m)

\* C18 as stated: a page whose leading text carries a notes marker always ends
\* the section open before it; with a start keyword it is recorded under the
\* new section and opens it, otherwise it is unclassified and so are the
\* following pages without a start keyword.
C18_GlobalStopAlways ==
    FilterReturned =>
        \A k \in 1..Len(pages_text) : HasStop(k) => EndsOpenSection(k)

\* C18, amended: the same for a page whose leading text carries a notes marker
\* and no table-of-contents marker; a page that carries both markers is
\* skipped: it is unclassified and does not end the section open before it.
C18_GlobalStop ==
    FilterReturned =>
        \A k \in 1..Len(pages_text) :
            HasStop(k) =>
                IF HasExclude(k)
                THEN /\ Unclassified(k)
                     /\ (k > 1 /\ RecordedIn(k - 1, "bs") /\ ~EndsOn(k - 1, "bs")
                            /\ PlainSuccessor(k)) => RecordedIn(k + 1, "bs")
                ELSE EndsOpenSection(k)

\* an open balance sheet, the notes on a page that opens the income statement,
\* and a page that continues the income statement
C18_Witness ==
    /\ FilterReturned
    /\ pages_text = <<PageBSStart, PageNotesISStart, PageFiller>>
    /\ relevant_pages.balance_sheet = <<0>>
    /\ relevant_pages.income_statement = <<1, 2>>

(***************************************************************************)
(* extractor.py: analyze_page_with_llm with its retry decorator, and       *)
(* run_extraction.py: main                                                 *)
(*                                                                         *)
(* The external call of one attempt either returns a parsed record with    *)
(* its usage counters or raises; which of the two is not decided by the    *)
(* program.  wait_fixed(2) only delays the next attempt.  The order in     *)
(* which the for loop visits a set is left open.                           *)
(***************************************************************************)
\* extractor.py line 129: stop_after_attempt(3)
StopAfterAttempt == 3

\* run_extraction.py line 33: the fallback takes the first 5 pages
FallbackPages == 5

\* extractor.py lines 174-184
Usage == [type |-> "dict",
          items |-> [prompt_tokens |-> 100, completion_tokens |-> 20,
                     total_tokens |-> 120, cached_tokens |-> 0]]

\* the records the external call may return for a page
LLMAnswers == {Candidate(<<"Unknown", "">>, "total_assets", M10),
               Candidate(<<"PT Bumi", "31 Maret 2025">>, "total_assets", M20)}

\* set(a + b) for two lists of indices
Elems(list) == {list[k] : k \in 1..Len(list)}

\* a fallback that takes every page of the document
SelectedIndices_NoCap(pages, rmap) ==
    LET found == Elems(rmap.balance_sheet) \cup Elems(rmap.income_statement)
    IN IF found = {} THEN 0..(Len(pages) - 1) ELSE found

\* run_extraction.py lines 29-33
SelectedIndices(pages, rmap) ==
    LET found == Elems(rmap.balance_sheet) \cup Elems(rmap.income_statement)
    IN IF found = {} THEN 0..(Min(FallbackPages, Len(pages)) - 1) ELSE found

\* run_extraction.py lines 18-33: extract the text, filter the pages, collect the indices
SelectPages ==
    /\ mode = "main"
    /\ pc = "start"
    /\ IF pages_text = <<>>
       THEN /\ outcome' = "Failed to extract text."
            /\ pc' = "done"
            /\ UNCHANGED <<relevant_pages, indices_to_process, pending>>
       ELSE /\ relevant_pages' = filter_relevant_pages(pages_text)
            /\ indices_to_process' = SelectedIndices(pages_text, relevant_pages')
            /\ pending' = indices_to_process'
            /\ pc' = "loop"
            /\ UNCHANGED outcome
    /\ UNCHANGED <<mode, extractVars, pages_text, current, attempts, calls, status, extracted_results,
                   result_pages, final_data, output_file, mergeVars, ratioVars, scaleVars>>

\* run_extraction.py lines 39-43: the loop reaches a page and calls analyze_page_with_llm
NextPage ==
    /\ mode = "main"
    /\ pc = "loop"
    /\ \E i \in pending :
          /\ current' = i
          /\ pending' = pending \ {i}
          /\ calls' = [calls EXCEPT ![i] = @ + 1]
    /\ pc' = "analyzing"
    /\ UNCHANGED <<mode, extractVars, pages_text, relevant_pages, indices_to_process, attempts, status,
                   extracted_results, result_pages, final_data, output_file, outcome,
                   mergeVars, ratioVars, scaleVars>>

\* extractor.py lines 163-186, run_extraction.py lines 43-45: an attempt returns
\* (parsed, usage_metadata) and main appends that result
AttemptSucceeds ==
    /\ mode = "main"
    /\ pc = "analyzing"
    /\ attempts' = [attempts EXCEPT ![current] = @ + 1]
    /\ \E parsed \in LLMAnswers :
          extracted_results' = Append(extracted_results, Tuple(<<parsed, Usage>>))
    /\ result_pages' = Append(result_pages, current)
    /\ status' = [status EXCEPT ![current] = "ok"]
    /\ pc' = "loop"
    /\ UNCHANGED <<mode, extractVars, pages_text, relevant_pages, indices_to_process, pending, current,
                   calls, final_data, output_file, outcome, mergeVars, ratioVars, scaleVars>>

\* the decorator stops one attempt late
AttemptFails_OneTooMany ==
    /\ mode = "main"
    /\ pc = "analyzing"
    /\ attempts' = [attempts EXCEPT ![current] = @ + 1]
    /\ pc' = IF attempts'[current] > StopAfterAttempt THEN "raised" ELSE "analyzing"
    /\ UNCHANGED <<mode, extractVars, pages_text, relevant_pages, indices_to_process, pending, current,
                   calls, status, extracted_results, result_pages, final_data, output_file,
                   outcome, mergeVars, ratioVars, scaleVars>>

\* extractor.py lines 188-190 and 129: an attempt raises; the decorator tries
\* again unless this was the last attempt allowed, and then raises to the caller
AttemptFails ==
    /\ mode = "main"
    /\ pc = "analyzing"
    /\ attempts' = [attempts EXCEPT ![current] = @ + 1]
    /\ pc' = IF attempts'[current] >= StopAfterAttempt THEN "raised" ELSE "analyzing"
    /\ UNCHANGED <<mode, extractVars, pages_text, relevant_pages, indices_to_process, pending, current,
                   calls, status, extracted_results, result_pages, final_data, output_file,
                   outcome, mergeVars, ratioVars, scaleVars>>

\* the failure of a page is not caught: it ends the run
HandleFailure_Abort ==
    /\ mode = "main"
    /\ pc = "raised"
    /\ status' = [status EXCEPT ![current] = "failed"]
    /\ pc' = "done"
    /\ outcome' = "RetryError"
    /\ UNCHANGED <<mode, extractVars, pages_text, relevant_pages, indices_to_process, pending, current,
                   attempts, calls, extracted_results, result_pages, final_data, output_file,
                   mergeVars, ratioVars, scaleVars>>

\* run_extraction.py lines 47-48: main catches the failure of the page and goes on
HandleFailure ==
    /\ mode = "main"
    /\ pc = "raised"
    /\ status' = [status EXCEPT ![current] = "failed"]
    /\ pc' = "loop"
    /\ UNCHANGED <<mode, extractVars, pages_text, relevant_pages, indices_to_process, pending, current,
                   attempts, calls, extracted_results, result_pages, final_data, output_file,
                   outcome, mergeVars, ratioVars, scaleVars>>

\* run_extraction.py lines 57-58: `with open(output_file, "w")` creates the file
\* before final_data.model_dump_json is looked up
WrittenFile(fd) == IF IsEF(fd) THEN fd ELSE ""

\* run_extraction.py lines 54-69: how the run ends for a value of final_data
OutcomeOf(fd) ==
    IF fd = AttributeError THEN "AttributeError"             \* raised inside merge_financials
    ELSE IF fd = None THEN "Failed to extract any structured data."
    ELSE IF IsEF(fd) THEN "Success"
    ELSE "AttributeError"                                    \* a tuple has no model_dump_json

\* run_extraction.py lines 50-69: merge the results, save and report
MergeResults ==
    /\ mode = "main"
    /\ pc = "loop"
    /\ pending = {}
    /\ final_data' = merge_financials(extracted_results)
    /\ extracted_results' = ListAfterMerge(extracted_results)
    /\ output_file' = IF final_data' \in {AttributeError, None} THEN NotWritten
                      ELSE WrittenFile(final_data')
    /\ outcome' = OutcomeOf(final_data')
    /\ pc' = "done"
    /\ UNCHANGED <<mode, extractVars, pages_text, relevant_pages, indices_to_process, pending, current,
                   attempts, calls, status, result_pages, mergeVars, ratioVars, scaleVars>>

(***************************************************************************)
(* Inputs of the run: the document                                         *)
(***************************************************************************)
MaxDocPages == 3

DocPageKinds == {PageBSStartEnd, PageISStart, PageFiller}


InitMain ==
    /\ mode = "main"
    /\ IdleMerge
    /\ IdleRatios
    /\ IdleScale
    /\ IdleExtract
    /\ pages_text \in SeqsUpTo(DocPageKinds, MaxDocPages)
    /\ relevant_pages = NotCalled
    /\ pc = "start"
    /\ MainAtStart

NextMain ==
    \/ SelectPages
    \/ NextPage
    \/ AttemptSucceeds
    \/ AttemptFails
    \/ HandleFailure
    \/ MergeResults

SpecMain == InitMain /\ [][NextMain]_vars

(***************************************************************************)
(* The same run on longer documents                                        *)
(***************************************************************************)
\* a document longer than the fallback, without a statement page
SixFillerDocument == [k \in 1..(FallbackPages + 1) |-> PageFiller]

\* a document shorter than the fallback, without a statement page
TwoFillerDocument == <<PageFiller, PageFiller>>

\* the balance sheet on page 1 and the income statement on page 8
PageISStartEnd == "LAPORAN LABA RUGI\nPendapatan 50\nLaba per saham 2"
SparseDocument ==
    <<PageFiller, PageBSStartEnd, PageFiller, PageFiller, PageFiller, PageFiller,
      PageFiller, PageFiller, PageISStartEnd>>

\* an open balance sheet followed by the income statement
ThreePageDocument == <<PageBSStart, PageFiller, PageISStartEnd>>

SelectionDocuments ==
    {SixFillerDocument, TwoFillerDocument, SparseDocument, ThreePageDocument}

InitSelection ==
    /\ mode = "main"
    /\ IdleMerge
    /\ IdleRatios
    /\ IdleScale
    /\ IdleExtract
    /\ pages_text \in SelectionDocuments
    /\ relevant_pages = NotCalled
    /\ pc = "start"
    /\ MainAtStart

SpecSelection == InitSelection /\ [][NextMain]_vars

(***************************************************************************)
(* Properties of analyze_page_with_llm and of main                         *)
(***************************************************************************)
Pages == 0..(Len(pages_text) - 1)

\* C5: one call makes at most 3 attempts; a successful attempt ends the call
\* with its result, a failed attempt before the third leaves the call trying
\* again, the third failure is raised to the caller, and no result ever
\* follows three failures.
C5_Attempts ==
    mode = "main" =>
        \A i \in Pages :
            /\ attempts[i] <= 3
            /\ status[i] = "ok" => attempts[i] \in 1..3
            /\ status[i] = "failed" => attempts[i] = 3
            /\ (pc = "raised" /\ current = i) => (attempts[i] = 3 /\ status[i] = "pending")
            /\ (pc = "analyzing" /\ current = i) => (attempts[i] < 3 /\ status[i] = "pending")

C5_AttemptStep ==
    \A i \in Pages :
        attempts'[i] # attempts[i] =>
            /\ attempts'[i] = attempts[i] + 1
            /\ pc = "analyzing" /\ current = i /\ status[i] = "pending"
            /\ \/ status'[i] = "ok" /\ pc' = "loop"
                    /\ Len(extracted_results') = Len(extracted_results) + 1
               \/ attempts'[i] < 3 /\ pc' = "analyzing" /\ current' = i
                    /\ status'[i] = "pending" /\ extracted_results' = extracted_results
               \/ attempts'[i] = 3 /\ pc' = "raised" /\ current' = i
                    /\ status'[i] = "pending" /\ extracted_results' = extracted_results

C5_AtMostThreeAttempts == []C5_Attempts /\ [][C5_AttemptStep]_vars

\* a page whose three attempts all failed, and a page that succeeded on its second
C5_Witness ==
    /\ mode = "main"
    /\ \E i \in Pages : status[i] = "failed" /\ attempts[i] = 3
    /\ \E i \in Pages : status[i] = "ok" /\ attempts[i] = 2

LoopOver == mode = "main" /\ pc = "done" /\ outcome # "Failed to extract text."

\* C6: a page that fails for good does not end the run: every selected page is
\* analysed exactly once, a failed page adds nothing to the list, and the list
\* handed to merge_financials has exactly one element per page that succeeded.
C6_PageFailureNonFatal ==
    /\ mode = "main" => \A i \in Pages : calls[i] <= 1
    /\ LoopOver =>
          /\ \A i \in indices_to_process : calls[i] = 1 /\ status[i] \in {"ok", "failed"}
          /\ \A i \in Pages \ indices_to_process : calls[i] = 0
          /\ Len(result_pages) = Cardinality({i \in Pages : status[i] = "ok"})
          /\ Elems(result_pages) = {i \in Pages : status[i] = "ok"}
          /\ Len(extracted_results) = Len(result_pages)
          /\ \A k \in 1..Len(extracted_results) : IsEF(extracted_results[k].items[1])

\* one page failed for good and another page of the same run gave a result
C6_Witness ==
    /\ LoopOver
    /\ \E i \in Pages : \E j \in Pages : status[i] = "failed" /\ status[j] = "ok"
    /\ Len(extracted_results) = 1
    /\ Cardinality(indices_to_process) >= 2

\* the indices filter_relevant_pages returned, in either list
Found == Elems(relevant_pages.balance_sheet) \cup Elems(relevant_pages.income_statement)

\* C11: when both lists of the filter are empty the caller analyses exactly the
\* pages 0 .. min(5, page_count) - 1; otherwise it analyses exactly the union of
\* the two lists and no other page.
C11_PageSelectionFallback ==
    (mode = "main" /\ pc \in {"loop", "analyzing", "raised", "done"} /\ pages_text # <<>>) =>
        /\ indices_to_process = IF Found = {} THEN {i \in Pages : i < 5} ELSE Found
        /\ \A i \in Pages : calls[i] >= 1 => i \in indices_to_process
        /\ LoopOver => \A i \in indices_to_process : calls[i] = 1

\* six pages without a statement: pages 0..4 were analysed, page 5 was not
C11_Witness ==
    /\ LoopOver
    /\ pages_text = SixFillerDocument
    /\ Found = {}
    /\ \A i \in 0..4 : calls[i] = 1
    /\ calls[5] = 0

\* C14: when the list of candidates is empty the run ends with the failure
\* message and writes no output record; when at least one candidate was merged
\* the run writes the canonical record and ends with success.
C14_NoDataOutcome ==
    LoopOver =>
        IF extracted_results = <<>>
        THEN /\ outcome = "Failed to extract any structured data."
             /\ output_file = NotWritten
        ELSE /\ outcome = "Success"
             /\ IsEF(final_data)
             /\ output_file = final_data

(***************************************************************************)
(* Properties of merge_financials                                          *)
(***************************************************************************)
Field(c, x) == IF x \in BalanceSheetFields THEN c.balance_sheet[x] ELSE c.income_statement[x]

MergeReturned == mode = "merge" /\ merged # NotCalled

AllPrimary == \A i \in 1..Len(merge_in) : ~restated[i]

\* the positions of the input whose field x is non-null
NonNullAt(x) == {i \in 1..Len(merge_in) : Field(merge_in[i], x) # None}

FirstOf(S) == CHOOSE i \in S : \A j \in S : i <= j

\* i is a primary candidate and j a restated one, both with field x set, to different values
PrimaryVsRestated(i, j, x) ==
    /\ ~restated[i] /\ restated[j]
    /\ Field(merge_in[i], x) # None /\ Field(merge_in[j], x) # None
    /\ Field(merge_in[i], x) # Field(merge_in[j], x)

\* C1: merging a primary candidate A and a restated candidate B that disagree on
\* a field X gives B's value for X, for both input orders and every field X.
C1_RestatedAlwaysWins ==
    (MergeReturned /\ Len(merge_in) = 2) =>
        \A i \in 1..2 : \A j \in 1..2 : \A x \in MetricFields :
            PrimaryVsRestated(i, j, x) => (IsEF(merged) /\ Field(merged, x) = Field(merge_in[j], x))

C7_EmptyInputGivesNone ==
    (MergeReturned /\ merge_in = <<>>) => merged = None

C7_Witness == MergeReturned /\ merge_in = <<>> /\ merged = None

\* C8: merging [c] returns a record equal to c in every field, and so does
\* merging [c, c].
C8_SingleCandidateIdempotent ==
    (MergeReturned /\ Len(merge_in) \in {1, 2} /\ \A i \in 1..Len(merge_in) : merge_in[i] = merge_in[1])
        => merged = merge_in[1]

\* [c, c] for a candidate that has both null and non-null fields and no name
C8_Witness ==
    /\ MergeReturned /\ Len(merge_in) = 2 /\ merge_in[2] = merge_in[1]
    /\ merge_in[1].company_name = "Unknown"
    /\ \E x \in MetricFields : Field(merge_in[1], x) = M20
    /\ \E x \in MetricFields : Field(merge_in[1], x) = None
    /\ merged = merge_in[1]

\* the canonical record after the first k candidates
Canon(k) == merge_financials(SubSeq(merge_in, 1, k))

Placeholder(v) == v = "" \/ v = "Unknown"

\* the first candidates, in input order, that carry a real name and a real period
RealNameAt == {i \in 1..Len(merge_in) : ~Placeholder(merge_in[i].company_name)}
RealPeriodAt == {i \in 1..Len(merge_in) : ~Placeholder(merge_in[i].report_period)}

\* C15: company_name, and likewise report_period, of the canonical record is
\* replaced by a later candidate's value only when the canonical value is empty
\* or "Unknown" and the candidate's value is present; once it is a real name
\* later candidates never change it; the merged value is always a string that
\* one of the candidates carried.
C15_IdentityFill ==
    (MergeReturned /\ merge_in # <<>>) =>
        /\ IsEF(merged)
        /\ \E i \in 1..Len(merge_in) : merged.company_name = merge_in[i].company_name
        /\ \E i \in 1..Len(merge_in) : merged.report_period = merge_in[i].report_period
        /\ RealNameAt # {} => merged.company_name = merge_in[FirstOf(RealNameAt)].company_name
        /\ RealPeriodAt # {} => merged.report_period = merge_in[FirstOf(RealPeriodAt)].report_period
        /\ \A k \in 1..(Len(merge_in) - 1) :
              LET before == Canon(k)
                  after == Canon(k + 1)
                  other == merge_in[k + 1]
              IN /\ after.company_name # before.company_name =>
                        /\ Placeholder(before.company_name)
                        /\ other.company_name # ""
                        /\ after.company_name = other.company_name
                 /\ ~Placeholder(before.company_name) =>
                        after.company_name = before.company_name
                 /\ after.report_period # before.report_period =>
                        /\ Placeholder(before.report_period)
                        /\ other.report_period # ""
                        /\ after.report_period = other.report_period
                 /\ ~Placeholder(before.report_period) =>
                        after.report_period = before.report_period

\* an undetermined page, then two pages naming different companies and periods
C15_Witness ==
    /\ MergeReturned /\ Len(merge_in) = 3
    /\ merge_in[1].company_name = "Unknown" /\ merge_in[1].report_period = ""
    /\ merge_in[2].company_name = "PT Bumi" /\ merge_in[2].report_period = "31 Maret 2025"
    /\ merge_in[3].company_name = "PT Adaro" /\ merge_in[3].report_period = "30 Juni 2025"
    /\ merged.company_name = "PT Bumi" /\ merged.report_period = "31 Maret 2025"

\* C21: for any non-empty sequence of candidates a balance-sheet or
\* income-statement field of the merged record is non-null if and only if some
\* candidate has that field non-null, a non-null merged value is the value of
\* one of the candidates, and currency, scale and unit_multiplier of the merged
\* record are those of the first candidate.
C21_MergeCompleteness ==
    (MergeReturned /\ merge_in # <<>>) =>
        /\ IsEF(merged)
        /\ \A x \in MetricFields :
              /\ Field(merged, x) # None <=> NonNullAt(x) # {}
              /\ Field(merged, x) # None =>
                    \E i \in 1..Len(merge_in) : Field(merged, x) = Field(merge_in[i], x)
        /\ merged.currency = merge_in[1].currency
        /\ merged.scale = merge_in[1].scale
        /\ merged.unit_multiplier = merge_in[1].unit_multiplier

\* three undetermined pages: the first, in USD, lacks the field, the next two,
\* in IDR, hold it; every other field is null on all three
C21_Witness ==
    /\ MergeReturned /\ Len(merge_in) = 3
    /\ merge_in[1].currency = "USD" /\ merge_in[2].currency = "IDR" /\ merge_in[3].currency = "IDR"
    /\ merged.currency = "USD" /\ merged.unit_multiplier = 1000
    /\ \E x \in MetricFields :
          /\ Field(merge_in[1], x) = None /\ Field(merge_in[2], x) = M10
          /\ Field(merge_in[3], x) = M20
          /\ Field(merged, x) = M10
          /\ \A y \in MetricFields \ {x} : NonNullAt(y) = {} /\ Field(merged, y) = None

(***************************************************************************)
(* Properties of main that concern the merged record                       *)
(***************************************************************************)
\* the candidate record of an element of extracted_results
CandidateOf(e) == IF IsEF(e) THEN e ELSE e.items[1]

\* the positions of extracted_results whose candidate has field x non-null
ResultsWith(x) ==
    {k \in 1..Len(extracted_results) : Field(CandidateOf(extracted_results[k]), x) # None}

\* the position, among S, of the result that came from the lowest page
LowestPage(S) == CHOOSE k \in S : \A l \in S : result_pages[k] <= result_pages[l]

\* C19: the candidates reach merge_financials in ascending page order, and the
\* canonical value of every field is the value extracted from the lowest
\* selected page that has the field non-null.
C19_AscendingPageOrder ==
    LoopOver =>
        /\ StrictlyAscending(result_pages)
        /\ \A x \in MetricFields :
              ResultsWith(x) # {} =>
                  /\ IsEF(final_data)
                  /\ Field(final_data, x) =
                        Field(CandidateOf(extracted_results[LowestPage(ResultsWith(x))]), x)

\* C20: every element handed to merge_financials is an ExtractedFinancials
\* record, and merging one or more page results completes and gives a record
\* whose company_name, balance_sheet and income_statement can be read.
C20_RecordsReachMerge ==
    LoopOver =>
        /\ \A k \in 1..Len(extracted_results) : IsEF(extracted_results[k])
        /\ extracted_results # <<>> => IsEF(final_data)

====
